---- MODULE Spec2Model ----
(***************************************************************************)
(* Delivery pipeline of the MetaRouter React Native SDK: the circuit       *)
(* breaker (analytics/utils/circuitBreaker.ts), the Dispatcher             *)
(* (analytics/dispatcher.ts) and the lifecycle of the owning               *)
(* MetaRouterAnalyticsClient.                                              *)
(*                                                                         *)
(* Time is kept relative to "now": a stored timestamp (openUntil,          *)
(* nextScheduledAt) is modelled by the milliseconds that remain until it,  *)
(* clamped at 0 once it has passed; Tick lets time pass.                   *)
(* Events are identified by the order in which track() produced them.      *)
(***************************************************************************)
EXTENDS Integers, Sequences, FiniteSets, TLC

\* ------------------------------------------------------------------ bounds
\* number of events the application produces in a run of the main model
MaxEvents == 3
\* the transport stops failing once the breaker has counted this many
\* consecutive failures (consecutiveFailures is unbounded in the code)
MaxConsecFailures == 4
\* transport calls that may be outstanding at once (the code allows one)
MaxFlights == 2
\* init() bodies that may be running at once
MaxInitBodies == 1
\* reset() bodies that may be running at once
MaxResetBodies == 1
\* options of the Dispatcher in the main model
MainMaxQueueEvents == 2
MainAutoFlushThreshold == 2
MainMaxBatchSize == 2
\* options and burst length of the batching model
MaxCap == 3
MaxBatchOpt == 3
MaxBurst == 5

\* breaker model: largest failureThreshold option, requests that may await
\* their report at once, the callers stop reporting failures once the breaker
\* counted MaxBreakerFailures in a row or opened MaxEpisodes times in a row
MaxThreshold == 3
MaxPending == 3
MaxBreakerFailures == 7
MaxEpisodes == 5

\* init module model: instances createAnalyticsClient() may construct in a
\* run, and boundClient.reset() bodies that may be running at once
MaxInstances == 3
MaxFactoryResets == 2

\* scheduling model: the step of its clock, in ms
SchedTick == 5

\* proxy model: calls the application makes on the proxy, and the cap of
\* the pending list (MAX_PENDING_CALLS, 20 in the source) scaled down
MaxProxyCalls == 4
MAX_PENDING_CALLS == 3

\* ------------------------------------------------------- program constants
Null == -1
CoalesceSlackMs == 25
MinRetryMs == 1000
ShrinkRetryMs == 500
\* breaker options (createBreaker)
OptFailureThreshold == 3
OptCooldownMs == 1000
OptMaxCooldownMs == 8000
OptHalfOpenMaxConcurrent == 1
\* jitterRatio as a fraction
OptJitterRatio == [num |-> 0, den |-> 10]
\* Math.random() is drawn from {0, 1/RandDen, ..., (RandDen-1)/RandDen}
RandDen == 4
\* the clock advances in steps of the shortest delay the Dispatcher schedules
Tick == ShrinkRetryMs

Max(a, b) == IF a >= b THEN a ELSE b
Min(a, b) == IF a <= b THEN a ELSE b

\* ------------------------------------------------------------------ breaker
\* options of createBreaker in the main model
MainBreakerOpts ==
    [failureThreshold |-> OptFailureThreshold, cooldownMs |-> OptCooldownMs,
     maxCooldownMs |-> OptMaxCooldownMs, jitterRatio |-> OptJitterRatio,
     halfOpenMaxConcurrent |-> OptHalfOpenMaxConcurrent]

\* new CircuitBreaker(o): the normalised options (jitterRatio, clamped to
\* [0, 0.5], as jitterNum / jitterDen) and the initial fields; an option
\* that is Null is undefined
CircuitBreaker(o) ==
    LET base   == Max(0, o.cooldownMs)
        jitter == IF o.jitterRatio.num = Null THEN [num |-> 2, den |-> 10]
                  ELSE o.jitterRatio
    IN  [failureThreshold |-> Max(1, o.failureThreshold),
         baseCooldownMs |-> base,
         maxCooldownMs |-> Max(base, IF o.maxCooldownMs = Null
                                     THEN o.cooldownMs * 8 ELSE o.maxCooldownMs),
         jitterNum |-> Min(Max(2 * jitter.num, 0), jitter.den),
         jitterDen |-> 2 * jitter.den,
         halfOpenMaxConcurrent |-> Max(1, IF o.halfOpenMaxConcurrent = Null
                                          THEN 1 ELSE o.halfOpenMaxConcurrent),
         state |-> "CLOSED", consecutiveFailures |-> 0, openUntil |-> 0,
         halfOpenInFlight |-> 0, openCount |-> 0]

NewBreaker == CircuitBreaker(MainBreakerOpts)

\* a breaker that admits every request
AllowAlways(c) == [ok |-> TRUE, c |-> c]

\* allowRequest(): the admission and the breaker after it
AllowRequest(c) ==
    LET n == IF c.state = "OPEN" /\ c.openUntil <= 0
             THEN [c EXCEPT !.halfOpenInFlight = 0, !.state = "HALF_OPEN"]
             ELSE c
    IN  IF n.state = "OPEN" THEN [ok |-> FALSE, c |-> n]
        ELSE IF n.state = "HALF_OPEN"
             THEN IF n.halfOpenInFlight >= n.halfOpenMaxConcurrent
                  THEN [ok |-> FALSE, c |-> n]
                  ELSE [ok |-> TRUE, c |-> [n EXCEPT !.halfOpenInFlight = @ + 1]]
             ELSE [ok |-> TRUE, c |-> n]

\* an onSuccess() that closes the breaker but keeps the backoff exponent
OnSuccessKeepsBackoff(c) ==
    LET n == IF c.state = "HALF_OPEN"
             THEN [c EXCEPT !.halfOpenInFlight = 0, !.state = "CLOSED"]
             ELSE c
    IN  [n EXCEPT !.consecutiveFailures = 0]

\* an onSuccess() that closes the breaker without clearing the probe counter
OnSuccessKeepsProbes(c) ==
    LET n == IF c.state = "HALF_OPEN"
             THEN [c EXCEPT !.openCount = 0, !.state = "CLOSED"]
             ELSE c
    IN  [n EXCEPT !.consecutiveFailures = 0]

OnSuccess(c) ==
    LET n == IF c.state = "HALF_OPEN"
             THEN [c EXCEPT !.halfOpenInFlight = 0, !.openCount = 0, !.state = "CLOSED"]
             ELSE c
    IN  [n EXCEPT !.consecutiveFailures = 0]

RECURSIVE CeilLog2Ratio(_, _, _)
\* least k >= from with den * 2^k >= num: ceil(log2(num / den)) floored at from
CeilLog2Ratio(num, den, from) ==
    IF den * (2 ^ from) >= num THEN from ELSE CeilLog2Ratio(num, den, from + 1)

MaxExponent(c) ==
    Max(0, CeilLog2Ratio(c.maxCooldownMs, Max(1, c.baseCooldownMs), 0))

\* a tripOpen() whose cooldown does not grow
TripOpenFlat(c, rnd) ==
    [c EXCEPT !.halfOpenInFlight = 0, !.openCount = Min(@ + 1, MaxExponent(c) + 1),
              !.openUntil = c.baseCooldownMs, !.state = "OPEN"]

\* a tripOpen() whose jitter is twice as wide
TripOpenWide(c, rnd) ==
    LET oc       == Min(c.openCount + 1, MaxExponent(c) + 1)
        backoff  == Min(c.maxCooldownMs, c.baseCooldownMs * (2 ^ Max(0, oc - 1)))
        jittered == backoff + (((2 * rnd - RandDen) * backoff * 2 * c.jitterNum)
                                \div (RandDen * c.jitterDen))
        cooldown == Max(0, jittered)
    IN  [c EXCEPT !.halfOpenInFlight = 0, !.openCount = oc,
                  !.openUntil = cooldown, !.state = "OPEN"]

\* tripOpen(): rnd / RandDen is the value of Math.random()
TripOpen(c, rnd) ==
    LET oc       == Min(c.openCount + 1, MaxExponent(c) + 1)
        backoff  == Min(c.maxCooldownMs, c.baseCooldownMs * (2 ^ Max(0, oc - 1)))
        jittered == backoff + (((2 * rnd - RandDen) * backoff * c.jitterNum)
                                \div (RandDen * c.jitterDen))
        cooldown == Max(0, jittered)
    IN  [c EXCEPT !.halfOpenInFlight = 0, !.openCount = oc,
                  !.openUntil = cooldown, !.state = "OPEN"]

\* the values of Math.random() a tripOpen() of breaker c is tried with; with
\* jitterRatio 0 the value is multiplied by 0 and one stands for all
Randoms(c) == IF c.jitterNum = 0 THEN {0} ELSE 0..(RandDen - 1)

\* an onFailure() that trips one failure late
OnFailureLate(c, rnd) ==
    LET n == [c EXCEPT !.consecutiveFailures = @ + 1]
    IN  IF n.state = "HALF_OPEN" THEN TripOpen(n, rnd)
        ELSE IF n.state = "CLOSED" /\ n.consecutiveFailures > n.failureThreshold
             THEN TripOpen(n, rnd)
             ELSE n

OnFailure(c, rnd) ==
    LET n == [c EXCEPT !.consecutiveFailures = @ + 1]
    IN  IF n.state = "HALF_OPEN" THEN TripOpen(n, rnd)
        ELSE IF n.state = "CLOSED" /\ n.consecutiveFailures >= n.failureThreshold
             THEN TripOpen(n, rnd)
             ELSE n

\* an onNonRetryable() that counts as the success of a probe
OnNonRetryableCloses(c) == OnSuccess(c)

OnNonRetryable(c) == [c EXCEPT !.consecutiveFailures = 0]

NextAllowedAt(c) == IF c.state = "OPEN" THEN c.openUntil ELSE 0

RemainingCooldownMs(c) == Max(0, NextAllowedAt(c))

\* a getState() that stores the state it reports, as allowRequest() does
GetStateNormalises(c) ==
    IF c.state = "OPEN" /\ c.openUntil <= 0
    THEN [ret |-> "HALF_OPEN",
          c |-> [c EXCEPT !.halfOpenInFlight = 0, !.state = "HALF_OPEN"]]
    ELSE [ret |-> c.state, c |-> c]

\* getState(): the state it reports and the breaker after the call
GetState(c) ==
    [ret |-> IF c.state = "OPEN" /\ c.openUntil <= 0 THEN "HALF_OPEN" ELSE c.state,
     c |-> c]


\* ------------------------------------------------------------------- state
VARIABLES
    \* Dispatcher
    opts,                 \* DispatcherOptions: maxQueueEvents, autoFlushThreshold, maxBatchSize
    queue,                \* queued events, oldest first
    flushTimer,           \* the periodic interval is set
    nextScheduledAt,      \* ms until the one-shot timer fires, Null when none is set
    flushInFlight,        \* the in-flight handle is set
    maxBatchSize,
    circuit,              \* the breaker
    \* doFlush() bodies
    flights,              \* batches handed to the transport, not yet answered
    settling,             \* doFlush() bodies that returned, their finally() not yet run
    \* MetaRouterAnalyticsClient
    lifecycle,
    initPromise,          \* initPromise is set
    anonymousId,          \* IdentityManager has an anonymous id
    appState,
    appStateSubscription,
    inits,                \* init() bodies by the await they are at
    resets,               \* reset() bodies at their await
    \* history
    nextId,               \* identifier of the next event track() produces
    burst,                \* events enqueued, and "Queue cap reached" warnings, since
                          \* the queue was empty, while enqueue() alone touched it
    cycle,                \* the current flush cycle while nothing disturbed it
    fatal,                \* a 401, 403 or 404 was handled and reset() not called since
    flushRet,             \* what the last step, if a flush() call, returned
    answered,             \* the outcome the last step, if a transport answer, handled
    resetMark,            \* identifier of the first event track() produces after the last reset()
    healthy,              \* environment: from now on the server answers every batch with 2xx
    settled,              \* how the doFlush() promise that settled last did so
    caller,               \* calls made on the breaker by the callers of the breaker model
    proxy,                \* the proxy module: realClient, pendingCalls, flushInFlight, and history
    factory,              \* the init module: initPromise, currentOptions, and the instances it made
    timeouts,             \* the one-shot timers of the Dispatcher the runtime holds, by the ms until they fire
    soonest,              \* the soonest wake-up scheduleFlushIn() was asked for since the timer last fired or was cancelled
    stopped               \* what the Dispatcher held when the last step, if it called stop() or reset(), made the call

vars == <<opts, queue, flushTimer, nextScheduledAt, flushInFlight, maxBatchSize,
          circuit, flights, settling, lifecycle, initPromise, anonymousId,
          appState, appStateSubscription, inits, resets, nextId, burst,
          cycle, fatal, flushRet, answered,
          resetMark,
          healthy,
          settled,
          caller,
          proxy,
          factory,
          timeouts,
          soonest,
          stopped>>

Range(f) == {f[i] : i \in DOMAIN f}

RECURSIVE Flatten(_)
Flatten(ss) == IF ss = <<>> THEN <<>> ELSE Head(ss) \o Flatten(Tail(ss))

RemoveAt(ss, i) == SubSeq(ss, 1, i - 1) \o SubSeq(ss, i + 1, Len(ss))

\* no run of enqueue() calls is tracked
NoBurst == [valid |-> FALSE, n |-> 0, warns |-> 0]

\* the last step handled no transport answer
NoAnswer == [kind |-> "none", status |-> 0, header |-> [kind |-> "none", v |-> 0]]

\* no call was made on the breaker
NoCalls ==
    [last |-> "none",      \* the method called last
     admitted |-> FALSE,   \* what the last allowRequest() returned
     read |-> "none",      \* what the last step, if a getState() call, returned
     probes |-> 0,         \* requests admitted in HALF_OPEN, outcome not reported
     plain |-> 0,          \* requests admitted in CLOSED, outcome not reported
     streak |-> 0,         \* onFailure() calls since the last other report
     episode |-> 0]        \* times the breaker opened since it was last CLOSED

\* the proxy module as loaded
NewProxy ==
    [realClient |-> FALSE,    \* a real client is bound
     pendingCalls |-> <<>>,   \* calls buffered while unbound, oldest first
     flushInFlight |-> 0,     \* the flush coalescer: the call whose real flush() it holds, or 0
     \* history
     nextCall |-> 1,          \* identifier of the next call made on the proxy
     results |-> <<>>,        \* results[id]: what call id returned and how it settled
     received |-> <<>>,       \* the calls the real clients were given, in order
     flushing |-> {},         \* calls whose real flush() has not settled
     mine |-> {},             \* calls whose real flush() was invoked on the client bound now
     replayed |-> 0]          \* calls the last setRealClient() replayed

\* the init module (analytics/init.ts) as loaded
NewFactory ==
    [initPromise |-> FALSE,   \* initPromise is set
     currentOptions |-> 0,    \* the options of the initialization, 0 for null
     inits |-> {},            \* instances whose init() the async body awaits
     resets |-> 0,            \* boundClient.reset() bodies awaiting instance.reset()
     bound |-> 0,             \* the instance whose boundClient the proxy holds, 0 for none
     \* history
     options |-> <<>>,        \* options[i]: the options instance i was constructed with
     made |-> 0,              \* instances constructed since a reset() last completed
     binds |-> 0]             \* setRealClient(boundClient) calls since a reset() last completed

\* the last step called neither stop() nor reset() of the Dispatcher
NoStop == [op |-> "none", queue |-> <<>>, maxBatchSize |-> 0, circuit |-> NewBreaker]

\* a cycle that is not tracked (none running, or one that was disturbed)
NoCycle == [clean |-> FALSE, start |-> <<>>, log |-> <<>>]

\* the state as one record, so that the methods below compose
Cur ==
    [opts |-> opts, queue |-> queue, flushTimer |-> flushTimer,
     nextScheduledAt |-> nextScheduledAt, flushInFlight |-> flushInFlight,
     maxBatchSize |-> maxBatchSize, circuit |-> circuit, flights |-> flights,
     settling |-> settling, lifecycle |-> lifecycle, initPromise |-> initPromise,
     anonymousId |-> anonymousId, appState |-> appState,
     appStateSubscription |-> appStateSubscription, inits |-> inits,
     resets |-> resets, nextId |-> nextId, burst |-> burst,
     cycle |-> cycle, fatal |-> fatal, flushRet |-> "none",
     answered |-> NoAnswer,
     resetMark |-> resetMark,
     healthy |-> healthy,
     settled |-> settled,
     caller |-> caller,
     proxy |-> proxy,
     factory |-> factory,
     timeouts |-> timeouts,
     soonest |-> soonest,
     stopped |-> NoStop]

Commit(s) ==
    /\ Len(s.flights) <= MaxFlights
    /\ opts' = s.opts
    /\ queue' = s.queue
    /\ flushTimer' = s.flushTimer
    /\ nextScheduledAt' = s.nextScheduledAt
    /\ flushInFlight' = s.flushInFlight
    /\ maxBatchSize' = s.maxBatchSize
    /\ circuit' = s.circuit
    /\ flights' = s.flights
    /\ settling' = s.settling
    /\ lifecycle' = s.lifecycle
    /\ initPromise' = s.initPromise
    /\ anonymousId' = s.anonymousId
    /\ appState' = s.appState
    /\ appStateSubscription' = s.appStateSubscription
    /\ inits' = s.inits
    /\ resets' = s.resets
    /\ nextId' = s.nextId
    /\ burst' = s.burst
    /\ cycle' = s.cycle
    /\ fatal' = s.fatal
    /\ flushRet' = s.flushRet
    /\ answered' = s.answered
    /\ resetMark' = s.resetMark
    /\ healthy' = s.healthy
    /\ settled' = s.settled
    /\ caller' = s.caller
    /\ proxy' = s.proxy
    /\ factory' = s.factory
    /\ timeouts' = s.timeouts
    /\ soonest' = s.soonest
    /\ stopped' = s.stopped

\* --------------------------------------------------------------- Dispatcher
\* a readiness predicate that is always true
CanSendAlways(s) == TRUE

CanSend(s) == s.lifecycle = "ready" /\ s.anonymousId

IsOperational(s) == s.lifecycle = "ready"

OnFatalConfig(s) == [s EXCEPT !.lifecycle = "disabled"]

\* clearNextTimer(); the callback of the timer leaves the same state
ClearNextTimer(s) ==
    [s EXCEPT !.timeouts = @ \ {s.nextScheduledAt}, !.nextScheduledAt = Null,
              !.soonest = Null]

Start(s) == [s EXCEPT !.flushTimer = TRUE]

Stop(s) ==
    ClearNextTimer([s EXCEPT !.flushTimer = FALSE,
                             !.stopped = [op |-> "stop", queue |-> s.queue,
                                          maxBatchSize |-> s.maxBatchSize,
                                          circuit |-> s.circuit]])

\* a reset() that leaves maxBatchSize as the 413 responses shrank it
ResetKeepsShrunk(s) ==
    [Stop(s) EXCEPT !.queue = <<>>, !.circuit = NewBreaker,
                    !.cycle = NoCycle, !.burst = NoBurst, !.stopped.op = "reset"]

Reset(s) ==
    [Stop(s) EXCEPT !.queue = <<>>, !.circuit = NewBreaker,
                    !.maxBatchSize = Max(1, s.opts.maxBatchSize),
                    !.cycle = NoCycle, !.burst = NoBurst, !.stopped.op = "reset"]

\* a scheduleFlushIn(ms) that replaces the pending timer whatever it is
ScheduleLast(s, ms) ==
    LET target == Max(0, ms)
    IN  [s EXCEPT !.timeouts = (@ \ {s.nextScheduledAt}) \cup {target},
                  !.nextScheduledAt = target,
                  !.soonest = IF @ = Null THEN target ELSE Min(@, target)]

\* scheduleFlushIn(ms): the pending wake-up after the call
ScheduleFlushIn(s, ms) ==
    LET target == Max(0, ms)
        s1     == [s EXCEPT !.soonest = IF @ = Null THEN target ELSE Min(@, target)]
    IN  IF s.nextScheduledAt # Null /\ target >= s.nextScheduledAt - CoalesceSlackMs
        THEN s1
        ELSE [s1 EXCEPT !.timeouts = (@ \ {s.nextScheduledAt}) \cup {target},
                        !.nextScheduledAt = target]

\* an eviction that drops the newest events instead of the oldest
EvictNewest(q, cap) == IF Len(q) >= cap THEN SubSeq(q, 1, cap - 1) ELSE q

RECURSIVE EvictUntilRoom(_, _)
\* the while loop of enqueue(): shift() until there is room
EvictUntilRoom(q, cap) ==
    IF Len(q) >= cap THEN EvictUntilRoom(Tail(q), cap) ELSE q

\* a drainBatch() that takes the whole queue
DrainWhole(q, mbs) == [batch |-> q, rest |-> <<>>]

\* drainBatch(): splice(0, n)
DrainBatch(q, mbs) ==
    LET n == Min(Len(q), mbs)
    IN  [batch |-> SubSeq(q, 1, n), rest |-> SubSeq(q, n + 1, Len(q))]

\* a requeue at the tail of the queue
PushBack(q, chunk) == q \o chunk

\* queue.unshift(...chunk)
Unshift(q, chunk) == chunk \o q

Requeue(s, chunk) == [s EXCEPT !.queue = Unshift(@, chunk), !.burst = NoBurst]

\* a flush() that ignores the in-flight handle
NeverJoins(s) == FALSE

\* the guard "if (this.flushInFlight) return this.flushInFlight"
JoinsInFlight(s) == s.flushInFlight

\* a doFlush() body returns, so its promise resolves; its finally() runs in
\* a later microtask
Settle(s) == [s EXCEPT !.settling = @ + 1, !.settled = "resolved"]

\* doFlush(): from the loop condition to the next await or return
DoFlushLoop(s) ==
    IF s.queue = <<>> THEN Settle(s)
    ELSE LET a == AllowRequest(s.circuit)
         IN  IF ~a.ok
             THEN Settle(ScheduleFlushIn([s EXCEPT !.circuit = a.c, !.cycle = NoCycle],
                                         RemainingCooldownMs(a.c)))
             ELSE LET b == DrainBatch(s.queue, s.maxBatchSize)
                  IN  [s EXCEPT !.circuit = a.c,
                                !.queue = b.rest,
                                !.flights = Append(@, b.batch),
                                !.burst = NoBurst,
                                !.cycle = IF @.clean
                                          THEN [@ EXCEPT !.log = Append(@, b.batch)]
                                          ELSE @]

\* flush()
Flush(s) ==
    IF s.queue = <<>> THEN [s EXCEPT !.flushRet = "noop"]
    ELSE IF JoinsInFlight(s) THEN [s EXCEPT !.flushRet = "joined"]
    ELSE IF ~CanSend(s) THEN [s EXCEPT !.flushRet = "noop"]
    ELSE [DoFlushLoop([s EXCEPT !.cycle = [clean |-> TRUE, start |-> s.queue,
                                           log |-> <<>>]])
            EXCEPT !.flushInFlight = TRUE, !.flushRet = "started"]

\* enqueue(event)
Enqueue(s, e) ==
    LET q1 == EvictUntilRoom(s.queue, s.opts.maxQueueEvents)
        dropped == Len(s.queue) - Len(q1)
        s1 == [s EXCEPT !.queue = Append(q1, e),
                        !.burst = IF s.queue = <<>>
                                  THEN [valid |-> TRUE, n |-> 1, warns |-> dropped]
                                  ELSE IF @.valid
                                       THEN [@ EXCEPT !.n = @ + 1, !.warns = @ + dropped]
                                       ELSE @,
                        !.cycle = IF s.flushInFlight THEN NoCycle ELSE @]
    IN  IF Len(s1.queue) >= s.opts.autoFlushThreshold THEN Flush(s1) ELSE s1


\* Retry-After headers the server may send: absent, delay-seconds, an HTTP
\* date (v: ms from now, negative when in the past), not parseable
Headers ==
    {[kind |-> "none", v |-> 0], [kind |-> "secs", v |-> 2],
     [kind |-> "date", v |-> 0 - 1000], [kind |-> "bad", v |-> 0]}

\* parseRetryAfter(h): ms, or Null
ParseRetryAfter(h) ==
    CASE h.kind = "none" -> Null
      [] h.kind = "secs" -> h.v * 1000
      [] h.kind = "date" -> Max(0, h.v)
      [] OTHER -> Null

OrZero(x) == IF x = Null THEN 0 ELSE x

Max3(a, b, c) == Max(a, Max(b, c))

\* what a transport call may end with
Statuses == {200, 400, 401, 404, 408, 413, 429, 500}

NoHeader == [kind |-> "none", v |-> 0]

\* the Retry-After header is read on 5xx, 408 and 429 alone
ReadsRetryAfter(st) == st >= 500 \/ st = 408 \/ st = 429

Outcomes ==
    {[kind |-> "response", status |-> st, header |-> h] :
        st \in {x \in Statuses : ReadsRetryAfter(x)}, h \in Headers}
    \cup {[kind |-> "response", status |-> st, header |-> NoHeader] :
               st \in {x \in Statuses : ~ReadsRetryAfter(x)}}
    \cup {[kind |-> "throw", status |-> 0, header |-> NoHeader]}

IsOk(o) == o.kind = "response" /\ o.status >= 200 /\ o.status <= 299

IsRetryable(o) == o.kind = "response" /\ (o.status >= 500 \/ o.status = 408)

IsFatal(o) == o.kind = "response" /\ o.status \in {401, 403, 404}

\* outcomes on which the Dispatcher reports a failure to the breaker
CountsAsFailure(o) == o.kind = "throw" \/ IsRetryable(o) \/ (o.kind = "response" /\ o.status = 429)

\* maxBatchSize after a 413
Shrink(mbs) == Max(1, mbs \div 2)

\* an exception of the transport call that leaves doFlush() uncaught
Uncaught(s, chunk, rnd) ==
    [s EXCEPT !.settling = @ + 1, !.settled = "rejected"]

\* the catch block
OnThrow(s, chunk, rnd) ==
    LET s1 == [s EXCEPT !.circuit = OnFailure(@, rnd)]
    IN  IF IsOperational(s1)
        THEN LET s2 == Requeue(s1, chunk)
                 wait == Max(RemainingCooldownMs(s2.circuit), MinRetryMs)
             IN  Settle(ScheduleFlushIn(s2, wait))
        ELSE Settle(s1)

\* a handling of 5xx, 408 and 429 that does not read the Retry-After header
RetryIgnoringHeader(s, chunk, o, rnd) == OnThrow(s, chunk, rnd)

\* 5xx, 408 and 429: breaker failure, requeue and retry while operational
OnRetryable(s, chunk, o, rnd) ==
    LET s1 == [s EXCEPT !.circuit = OnFailure(@, rnd)]
    IN  IF IsOperational(s1)
        THEN LET s2 == Requeue(s1, chunk)
                 wait == Max3(RemainingCooldownMs(s2.circuit),
                              OrZero(ParseRetryAfter(o.header)), MinRetryMs)
             IN  Settle(ScheduleFlushIn(s2, wait))
        ELSE Settle(s1)

\* 401, 403, 404
OnFatal(s) ==
    Settle(OnFatalConfig(Stop([s EXCEPT !.queue = <<>>, !.burst = NoBurst,
                                        !.fatal = TRUE])))

\* 413
OnTooLarge(s, chunk) ==
    LET s1 == [s EXCEPT !.circuit = OnNonRetryable(@)]
    IN  IF s1.maxBatchSize > 1
        THEN Settle(ScheduleFlushIn(Requeue([s1 EXCEPT !.maxBatchSize = Shrink(@)],
                                            chunk),
                                    ShrinkRetryMs))
        ELSE Settle(s1)

\* doFlush() from the answer of the transport call of flight i to the next
\* await or return
HandleOutcome(s, i, o, rnd) ==
    LET chunk == s.flights[i]
        s0    == [s EXCEPT !.flights = RemoveAt(@, i),
                           !.cycle = IF IsOk(o) THEN @ ELSE NoCycle]
    IN  CASE o.kind = "throw" -> OnThrow(s0, chunk, rnd)
          [] IsOk(o) -> DoFlushLoop([s0 EXCEPT !.circuit = OnSuccess(@)])
          [] IsRetryable(o) -> OnRetryable(s0, chunk, o, rnd)
          [] o.status = 429 -> OnRetryable(s0, chunk, o, rnd)
          [] IsFatal(o) -> OnFatal(s0)
          [] o.status = 413 -> OnTooLarge(s0, chunk)
          [] OTHER -> DoFlushLoop([s0 EXCEPT !.circuit = OnNonRetryable(@)])

\* ------------------------------------------------- MetaRouterAnalyticsClient
\* handleAppStateChange(nextState)
HandleAppStateChange(s, nextState) ==
    LET s1 == IF s.appState = "active" /\ nextState = "background"
              THEN Stop(Flush(s)) ELSE s
        s2 == IF nextState = "active" /\ s1.lifecycle = "ready"
              THEN Flush(Start(s1)) ELSE s1
    IN  [s2 EXCEPT !.appState = nextState]

\* reset() up to its first await
ResetBegin(s) ==
    LET s1 == Reset(Stop([s EXCEPT !.lifecycle = "resetting"]))
    IN  [s1 EXCEPT !.appStateSubscription = FALSE, !.anonymousId = FALSE,
                   !.resets = @ + 1, !.fatal = FALSE,
                   !.resetMark = s.nextId]

\* reset() after its awaits
ResetEnd(s) ==
    [s EXCEPT !.initPromise = FALSE, !.lifecycle = "idle", !.resets = @ - 1]

Quiet(s) == [s EXCEPT !.flushRet = "none"]


\* init() up to its first await
InitBegin(s) ==
    IF s.lifecycle = "ready" THEN s
    ELSE IF s.lifecycle = "initializing" /\ s.initPromise THEN s
    ELSE IF s.lifecycle = "disabled" THEN s
    ELSE [s EXCEPT !.lifecycle = "initializing", !.initPromise = TRUE,
                   !.inits.identity = @ + 1]

\* init() from the answer of identityManager.init() to the next await
InitAfterIdentity(s) ==
    LET s1 == Start([s EXCEPT !.anonymousId = TRUE])
    IN  [s1 EXCEPT !.appStateSubscription = TRUE,
                   !.inits.identity = @ - 1, !.inits.context = @ + 1]

\* init() after getContextInfo()
InitEnd(s) == [s EXCEPT !.lifecycle = "ready", !.inits.context = @ - 1]

\* the catch block of init()
InitCatch(s) == [s EXCEPT !.lifecycle = "idle", !.inits.context = @ - 1]

\* the clock advances by d ms
Elapse(s, d) ==
    [s EXCEPT !.circuit.openUntil = Max(0, @ - d),
              !.nextScheduledAt = IF @ = Null THEN Null ELSE Max(0, @ - d),
              !.timeouts = {Max(0, x - d) : x \in @},
              !.soonest = IF @ = Null THEN Null ELSE Max(0, @ - d)]

\* the clock advances by Tick ms
TimePasses(s) == Elapse(s, Tick)

TimerDue(s) == s.nextScheduledAt # Null /\ s.nextScheduledAt <= 0

\* ------------------------------------------------------------------ actions
MainOpts ==
    [maxQueueEvents |-> MainMaxQueueEvents,
     autoFlushThreshold |-> MainAutoFlushThreshold,
     maxBatchSize |-> MainMaxBatchSize]

\* the client and its Dispatcher as the constructors leave them
Constructed(o) ==
    [opts |-> o, queue |-> <<>>, flushTimer |-> FALSE, nextScheduledAt |-> Null,
     flushInFlight |-> FALSE, maxBatchSize |-> Max(1, o.maxBatchSize),
     circuit |-> NewBreaker, flights |-> <<>>, settling |-> 0,
     lifecycle |-> "idle", initPromise |-> FALSE, anonymousId |-> FALSE,
     appState |-> "active", appStateSubscription |-> FALSE,
     inits |-> [identity |-> 0, context |-> 0], resets |-> 0, nextId |-> 1,
     burst |-> NoBurst, cycle |-> NoCycle, fatal |-> FALSE, flushRet |-> "none",
     answered |-> NoAnswer,
     resetMark |-> 1,
     healthy |-> FALSE,
     settled |-> "none",
     caller |-> NoCalls,
     proxy |-> NewProxy,
     factory |-> NewFactory,
     timeouts |-> {},
     soonest |-> Null,
     stopped |-> NoStop]

\* the state is s
StateIs(s) ==
    /\ opts = s.opts
    /\ queue = s.queue
    /\ flushTimer = s.flushTimer
    /\ nextScheduledAt = s.nextScheduledAt
    /\ flushInFlight = s.flushInFlight
    /\ maxBatchSize = s.maxBatchSize
    /\ circuit = s.circuit
    /\ flights = s.flights
    /\ settling = s.settling
    /\ lifecycle = s.lifecycle
    /\ initPromise = s.initPromise
    /\ anonymousId = s.anonymousId
    /\ appState = s.appState
    /\ appStateSubscription = s.appStateSubscription
    /\ inits = s.inits
    /\ resets = s.resets
    /\ nextId = s.nextId
    /\ burst = s.burst
    /\ cycle = s.cycle
    /\ fatal = s.fatal
    /\ flushRet = s.flushRet
    /\ answered = s.answered
    /\ resetMark = s.resetMark
    /\ healthy = s.healthy
    /\ settled = s.settled
    /\ caller = s.caller
    /\ proxy = s.proxy
    /\ factory = s.factory
    /\ timeouts = s.timeouts
    /\ soonest = s.soonest
    /\ stopped = s.stopped

Init == StateIs(Constructed(MainOpts))

\* track(): dropped unless the client is ready
TrackUpTo(limit) ==
    /\ nextId <= limit
    /\ Commit(Quiet(IF lifecycle = "ready"
                    THEN Enqueue([Cur EXCEPT !.nextId = @ + 1], nextId)
                    ELSE Cur))

Track == TrackUpTo(MaxEvents)

\* flush() called by the application
FlushCall == Commit(Flush(Cur))

\* the setInterval callback of start()
PeriodicFlush ==
    /\ flushTimer
    /\ settling = 0
    /\ Commit(Quiet(Flush(Cur)))

\* the setTimeout callback of scheduleFlushIn()
NextTimerFire ==
    /\ TimerDue(Cur)
    /\ settling = 0
    /\ Commit(Quiet(Flush(ClearNextTimer(Cur))))

\* the transport call of flight i ends with outcome o
TransportAnswers(i, o) ==
    \E rnd \in Randoms(circuit) :
        /\ settling = 0
        /\ CountsAsFailure(o) => circuit.consecutiveFailures < MaxConsecFailures
        /\ Commit([Quiet(HandleOutcome(Cur, i, o, rnd)) EXCEPT !.answered = o])

TransportComplete ==
    \E i \in 1..Len(flights), o \in Outcomes : TransportAnswers(i, o)

\* the finally() of flush()
FlushFinally ==
    /\ settling > 0
    /\ Commit(Quiet([Cur EXCEPT !.settling = @ - 1, !.flushInFlight = FALSE,
                                !.cycle = NoCycle]))

InitCall ==
    /\ inits.identity + inits.context < MaxInitBodies
    /\ Commit(Quiet(InitBegin(Cur)))

InitIdentityDone ==
    /\ inits.identity > 0
    /\ Commit(Quiet(InitAfterIdentity(Cur)))

InitDone ==
    /\ inits.context > 0
    /\ Commit(Quiet(InitEnd(Cur)))

\* getIdentityField() or getContextInfo() rejects
InitFail ==
    /\ inits.context > 0
    /\ Commit(Quiet(InitCatch(Cur)))

ResetCall ==
    /\ resets < MaxResetBodies
    /\ Commit(Quiet(ResetBegin(Cur)))

ResetDone ==
    /\ resets > 0
    /\ Commit(Quiet(ResetEnd(Cur)))

AppStateChange ==
    /\ appStateSubscription
    /\ \E n \in {"active", "background"} \ {appState} :
           Commit(Quiet(HandleAppStateChange(Cur, n)))

ClockTick ==
    /\ settling = 0
    /\ ~TimerDue(Cur)
    /\ circuit.openUntil > 0 \/ nextScheduledAt # Null
    /\ Commit(Quiet(TimePasses(Cur)))

Next ==
    \/ Track
    \/ FlushCall
    \/ PeriodicFlush
    \/ NextTimerFire
    \/ TransportComplete
    \/ FlushFinally
    \/ InitCall
    \/ InitIdentityDone
    \/ InitDone
    \/ InitFail
    \/ ResetCall
    \/ ResetDone
    \/ AppStateChange
    \/ ClockTick

Spec == Init /\ [][Next]_vars

\* ---------------------------------------------------------- batching model
\* A ready client whose Dispatcher was constructed with any of BatchOpts;
\* the threshold of the auto-flush is out of the reach of the cap.
BatchOpts ==
    [maxQueueEvents : 1..MaxCap,
     autoFlushThreshold : {MaxCap + 1},
     maxBatchSize : 0..MaxBatchOpt]

\* the client after init() ran to its end
Ready(o) == InitEnd(InitAfterIdentity(InitBegin(Constructed(o))))

InitBatch == \E o \in BatchOpts : StateIs(Ready(o))

TrackBurst == TrackUpTo(MaxBurst)

NextBatch ==
    \/ TrackBurst
    \/ FlushCall
    \/ PeriodicFlush
    \/ NextTimerFire
    \/ TransportComplete
    \/ FlushFinally
    \/ ClockTick

SpecBatch == InitBatch /\ [][NextBatch]_vars

\* ------------------------------------------------------------------- claims
CeilDiv(a, b) == (a + b - 1) \div b

\* C1: in every reachable state the queue holds at most maxQueueEvents
\* events, also after a failed batch was requeued at the head behind events
\* enqueued while it was in flight.
QueueWithinCap == Len(queue) <= opts.maxQueueEvents

ChunkingPreservesOrder ==
    (settling > 0 /\ cycle.clean) =>
        /\ queue = <<>>
        /\ Flatten(cycle.log) = cycle.start
        /\ Len(cycle.log) = CeilDiv(Len(cycle.start), maxBatchSize)
        /\ \A i \in 1..Len(cycle.log) :
               /\ Len(cycle.log[i]) >= 1
               /\ Len(cycle.log[i]) <= maxBatchSize
               /\ i < Len(cycle.log) => Len(cycle.log[i]) = maxBatchSize

\* a flush that settled after a full batch and a shorter last one
ChunkingWitness ==
    /\ settling > 0
    /\ cycle.clean
    /\ Len(cycle.log) >= 2
    /\ maxBatchSize >= 2
    /\ Len(cycle.log[Len(cycle.log)]) < maxBatchSize

InFlight(e) == \E i \in 1..Len(flights) : e \in Range(flights[i])

\* C4: while a batch is with the transport, every event waiting in the
\* queue was enqueued after every event of the batch, and the queue is in
\* enqueue order; so no event overtakes an older one that still waits.
FifoAcrossRequeues ==
    /\ \A i \in 1..Len(queue), j \in 1..Len(queue) : i < j => queue[i] < queue[j]
    /\ \A k \in 1..Len(flights) :
           \A x \in Range(flights[k]), y \in Range(queue) : x < y

\* after a failure a batch is with the transport again while a newer event waits
FifoWitness ==
    /\ circuit.consecutiveFailures > 0
    /\ flights # <<>>
    /\ queue # <<>>

\* C5: at most one doFlush() is running, so at most one transport call is
\* outstanding, and the in-flight handle is set exactly while that doFlush()
\* has not settled.
SingleFlight ==
    /\ Len(flights) + settling <= 1
    /\ flushInFlight <=> (flights # <<>> \/ settling > 0)

\* a flush() joined the one in flight
SingleFlightWitness ==
    /\ flushRet = "joined"
    /\ Len(flights) = 1

\* C6: a flush() called while a transport call is pending does not return at
\* once: it is handed the in-flight promise, also when the queue is empty.
FlushJoinsPending == (flushRet = "noop") => flights = <<>>

FailureOutcomes == {o \in Outcomes : CountsAsFailure(o)}

\* max(breaker remaining cooldown, Retry-After delay if present, 1000 ms)
RetryDelay(c, o) ==
    Max3(RemainingCooldownMs(c),
         IF o.kind = "throw" THEN 0 ELSE OrZero(ParseRetryAfter(o.header)),
         MinRetryMs)

\* a scheduleFlushIn(ms) took place: a wake-up is pending, the requested one
\* unless one that is not later (by more than the slack) was pending already
Scheduled(before, after, ms) ==
    /\ after \in {before, ms} \ {Null}
    /\ after <= ms + CoalesceSlackMs
    /\ before = Null => after = ms

\* C7: when a transport call ends with 5xx, 408, 429 or an exception while
\* the client is operational, the breaker counts one more failure, the batch
\* is back at the head of the queue, the doFlush() returns, and a retry is
\* scheduled after max(remaining cooldown, Retry-After delay, 1000 ms).
RetryableRequeuesAndSchedules ==
    [][(answered' \in FailureOutcomes /\ IsOperational(Cur) /\ Len(flights) = 1) =>
          /\ circuit'.consecutiveFailures = circuit.consecutiveFailures + 1
          /\ queue' = flights[1] \o queue
          /\ flights' = <<>>
          /\ settling' = settling + 1
          /\ Scheduled(nextScheduledAt, nextScheduledAt',
                       RetryDelay(circuit', answered'))]_vars

\* a response with Retry-After: 2 was handled while the breaker stayed CLOSED
RetryableWitness ==
    /\ circuit.state = "CLOSED"
    /\ circuit.consecutiveFailures > 0
    /\ settling > 0
    /\ queue # <<>>
    /\ nextScheduledAt = 2000

BreakerOpen == circuit.state = "OPEN" /\ circuit.openUntil > 0

\* C8: while the breaker is OPEN and cooling down no transport call starts;
\* enqueue() appends the event; a flush() that reaches the admission check
\* leaves the queue as it is, returns, and a retry is scheduled after the
\* remaining cooldown.
OpenBreakerBlocksTransport ==
    [][BreakerOpen =>
          /\ flights' = flights \/ Len(flights') < Len(flights)
          /\ (Track /\ lifecycle = "ready") =>
                 /\ queue' # <<>>
                 /\ queue'[Len(queue')] = nextId
          /\ (FlushCall /\ queue # <<>> /\ ~flushInFlight /\ CanSend(Cur)) =>
                 /\ queue' = queue
                 /\ settling' = settling + 1
                 /\ Scheduled(nextScheduledAt, nextScheduledAt',
                              circuit.openUntil)]_vars

\* a flush() was denied admission by the OPEN breaker
OpenBreakerWitness ==
    /\ BreakerOpen
    /\ flushRet = "started"
    /\ settling > 0
    /\ queue # <<>>

FatalOutcomes == {o \in Outcomes : IsFatal(o)}

\* C9: a 401, 403 or 404 response empties the queue, stops both timers and
\* disables the client; from then until reset() is called the client is not
\* ready (tracking calls are dropped), the queue stays empty and no transport
\* call starts.
FatalDisablesUntilReset ==
    [][/\ answered' \in FatalOutcomes =>
             /\ queue' = <<>>
             /\ ~flushTimer'
             /\ nextScheduledAt' = Null
             /\ lifecycle' = "disabled"
       /\ fatal' => (lifecycle' # "ready" /\ queue' = <<>>)
       /\ (fatal /\ fatal') => Len(flights') <= Len(flights)]_vars

\* --------------------------------------------------------- oversize model
\* A ready client with the options of the main model and a server that
\* answers 413 to every batch holding an event of Oversize, under the
\* fairness of the runtime: the event loop runs every callback that is due
\* (timers, the answer or the timeout of fetchWithTimeout, microtasks), and
\* time passes.
Oversize == {2}

TooLarge == [kind |-> "response", status |-> 413, header |-> NoHeader]

OversizeVerdicts(chunk) ==
    IF Range(chunk) \cap Oversize # {} THEN {TooLarge} ELSE Outcomes

TransportJudges ==
    \E i \in 1..Len(flights) :
        \E o \in OversizeVerdicts(flights[i]) : TransportAnswers(i, o)

InitOversize == StateIs(Ready(MainOpts))

NextOversize ==
    \/ Track
    \/ FlushCall
    \/ PeriodicFlush
    \/ NextTimerFire
    \/ TransportJudges
    \/ FlushFinally
    \/ ClockTick

SpecOversize ==
    /\ InitOversize
    /\ [][NextOversize]_vars
    /\ SF_vars(PeriodicFlush)
    /\ SF_vars(NextTimerFire)
    /\ SF_vars(TransportJudges)
    /\ SF_vars(FlushFinally)
    /\ SF_vars(ClockTick)

\* C10: a 413 halves maxBatchSize (not below 1), requeues the batch at the
\* head and schedules a retry after 500 ms, or drops the batch when
\* maxBatchSize is 1 already; and an event whose batches always get 413 does
\* not stay forever: once it was sent, it is eventually in neither the queue
\* nor a batch.
TooLargeShrinksThenDrops ==
    /\ [][(answered' = TooLarge /\ Len(flights) = 1) =>
             /\ maxBatchSize' = Max(1, maxBatchSize \div 2)
             /\ flights' = <<>>
             /\ settling' = settling + 1
             /\ IF maxBatchSize > 1
                THEN /\ queue' = flights[1] \o queue
                     /\ Scheduled(nextScheduledAt, nextScheduledAt', ShrinkRetryMs)
                ELSE /\ queue' = queue
                     /\ nextScheduledAt' = nextScheduledAt]_vars
    /\ \A e \in Oversize :
           InFlight(e) ~> (~InFlight(e) /\ e \notin Range(queue))

\* C11: when a transport call ends in failure (5xx, 408, 429, 413 or an
\* exception) while the client is not operational, the batch is dropped:
\* nothing goes back into the queue and no retry is scheduled.
NotOperationalDropsBatch ==
    [][(/\ answered' \in FailureOutcomes \cup {TooLarge}
        /\ ~IsOperational(Cur)
        /\ Len(flights) = 1) =>
          /\ flights' = <<>>
          /\ queue' = queue
          /\ nextScheduledAt' = nextScheduledAt]_vars

\* C12: no event enqueued before a reset() is in the queue, or in a batch
\* handed to the transport, after that reset(): a flush in flight at the
\* reset never puts its batch back, also when init() ran again before the
\* old transport call ended.
ResetForgetsOldEvents ==
    [][/\ \A e \in Range(queue') : e >= resetMark'
       /\ Len(flights') > Len(flights) =>
              \A e \in Range(flights'[Len(flights')]) : e >= resetMark']_vars

\* --------------------------------------------------------- recovery model
\* A ready client with the options of the main model and a server that,
\* after any non-fatal answers, turns healthy for good and answers 2xx to
\* every batch; the client is neither reset nor sent to the background, and
\* the event loop runs every callback that is due.
Success == [kind |-> "response", status |-> 200, header |-> NoHeader]

RecoveryVerdicts ==
    IF healthy THEN {Success} ELSE {o \in Outcomes : ~IsFatal(o)}

TransportRecovering ==
    \E i \in 1..Len(flights) :
        \E o \in RecoveryVerdicts : TransportAnswers(i, o)

ServerRecovers ==
    /\ ~healthy
    /\ Commit(Quiet([Cur EXCEPT !.healthy = TRUE]))

InitRecovery == StateIs(Ready(MainOpts))

NextRecovery ==
    \/ Track
    \/ FlushCall
    \/ PeriodicFlush
    \/ NextTimerFire
    \/ TransportRecovering
    \/ ServerRecovers
    \/ FlushFinally
    \/ ClockTick

SpecRecovery ==
    /\ InitRecovery
    /\ [][NextRecovery]_vars
    /\ SF_vars(PeriodicFlush)
    /\ SF_vars(NextTimerFire)
    /\ SF_vars(TransportRecovering)
    /\ SF_vars(FlushFinally)
    /\ SF_vars(ClockTick)

\* C13: once every transport call returns 2xx, with the client ready and
\* the timers firing, the queue eventually empties and no batch stays with
\* the transport, whatever failures came before.
DeliveryIsLive == healthy ~> (queue = <<>> /\ flights = <<>>)

\* C14: the promise of flush() resolves and never rejects: whatever a
\* transport call ends with (2xx, 5xx, 408, 429, 413, 401/403/404, another
\* 4xx, an exception), doFlush() either goes on to the next batch or
\* returns, also when it only requeued the batch and scheduled a retry.
FlushAlwaysResolves ==
    [][/\ settled' # "rejected"
       /\ (answered' # NoAnswer /\ flights' = <<>>) =>
              /\ settling' = settling + 1
              /\ settled' = "resolved"]_vars

\* a doFlush() whose transport call threw has requeued, rescheduled and returned
FlushResolvesWitness ==
    /\ answered.kind = "throw"
    /\ settled = "resolved"
    /\ settling > 0
    /\ queue # <<>>
    /\ nextScheduledAt # Null

\* ---------------------------------------------------------- breaker model
\* A CircuitBreaker constructed with any of BreakerOptions and callers that
\* ask for admission and report the outcome of every admitted request, up to
\* MaxPending requests at a time, while time passes.
BreakerOptions ==
    [failureThreshold : 0..MaxThreshold,
     cooldownMs : {0, 500},
     maxCooldownMs : {Null, 1000},
     jitterRatio : {[num |-> 0, den |-> 10]},
     halfOpenMaxConcurrent : {Null, 2}]

InitBreaker ==
    \E o \in BreakerOptions :
        StateIs([Constructed(MainOpts) EXCEPT !.circuit = CircuitBreaker(o)])

\* a caller calls allowRequest() and, if admitted, starts its request
BreakerAllow ==
    LET r     == AllowRequest(circuit)
        probe == r.ok /\ r.c.state = "HALF_OPEN"
        plain == r.ok /\ ~probe
        k     == [caller EXCEPT !.last = "allowRequest", !.admitted = r.ok,
                                !.read = "none",
                                !.probes = IF probe THEN @ + 1 ELSE @,
                                !.plain = IF plain THEN @ + 1 ELSE @]
    IN  /\ k.probes + k.plain <= MaxPending
        /\ Commit([Cur EXCEPT !.circuit = r.c, !.caller = k])

\* the callers after the request of a probe (or of a plain request) ended
\* and method was called for it on the breaker, which is c afterwards
Reported(isProbe, method, c) ==
    [caller EXCEPT !.last = method,
                   !.read = "none",
                   !.probes = IF isProbe THEN @ - 1 ELSE @,
                   !.plain = IF isProbe THEN @ ELSE @ - 1,
                   !.streak = IF method = "onFailure" THEN @ + 1 ELSE 0,
                   !.episode = IF c.state = "CLOSED" THEN 0
                               ELSE IF circuit.state # "OPEN" /\ c.state = "OPEN"
                                    THEN @ + 1 ELSE @]

Awaited(isProbe) == IF isProbe THEN caller.probes > 0 ELSE caller.plain > 0

BreakerSuccess ==
    \E isProbe \in BOOLEAN :
        /\ Awaited(isProbe)
        /\ LET c == OnSuccess(circuit)
           IN  Commit([Cur EXCEPT !.circuit = c,
                                  !.caller = Reported(isProbe, "onSuccess", c)])

BreakerFailure ==
    \E isProbe \in BOOLEAN, rnd \in Randoms(circuit) :
        /\ Awaited(isProbe)
        /\ circuit.consecutiveFailures < MaxBreakerFailures
        /\ caller.episode < MaxEpisodes
        /\ LET c == OnFailure(circuit, rnd)
           IN  Commit([Cur EXCEPT !.circuit = c,
                                  !.caller = Reported(isProbe, "onFailure", c)])

BreakerNonRetryable ==
    \E isProbe \in BOOLEAN :
        /\ Awaited(isProbe)
        /\ LET c == OnNonRetryable(circuit)
           IN  Commit([Cur EXCEPT !.circuit = c,
                                  !.caller = Reported(isProbe, "onNonRetryable", c)])

\* a caller reads the state
BreakerGetState ==
    LET r == GetState(circuit)
    IN  Commit([Cur EXCEPT !.circuit = r.c, !.caller.last = "getState",
                          !.caller.read = r.ret])

BreakerTick ==
    /\ circuit.openUntil > 0
    /\ Commit([Cur EXCEPT !.circuit.openUntil = Max(0, @ - Tick),
                          !.caller.last = "tick", !.caller.read = "none"])

NextBreaker ==
    \/ BreakerAllow
    \/ BreakerGetState
    \/ BreakerSuccess
    \/ BreakerFailure
    \/ BreakerNonRetryable
    \/ BreakerTick

SpecBreaker == InitBreaker /\ [][NextBreaker]_vars

\* C15: for every failureThreshold n >= 1, a CLOSED breaker opens on the
\* n-th onFailure() in a row and not before: while it is CLOSED fewer than n
\* failures were reported since the last onSuccess() (which restarts the
\* count), and the failure report that makes them n opens it.
ThresholdTrips ==
    [][/\ circuit'.state = "CLOSED" => caller'.streak < circuit'.failureThreshold
       /\ (caller'.last = "onFailure" /\ circuit.state = "CLOSED") =>
              (circuit'.state = "OPEN" <=>
                   caller'.streak = circuit.failureThreshold)]_vars

\* a breaker with threshold 3 opened on the third failure in a row
ThresholdWitness ==
    /\ circuit.failureThreshold = 3
    /\ circuit.state = "OPEN"
    /\ caller.last = "onFailure"
    /\ caller.streak = 3
    /\ caller.episode = 1

\* C16: with jitterRatio 0 the cooldown of the k-th OPEN episode in a row
\* (no CLOSED in between) is min(maxCooldownMs, baseCooldownMs * 2^(k-1));
\* a successful HALF_OPEN probe closes the breaker, so the OPEN after it is
\* the first of a new row and lasts baseCooldownMs.
BackoffDoublesToCap ==
    [][(caller'.episode = caller.episode + 1 /\ circuit.jitterNum = 0) =>
          /\ circuit'.state = "OPEN"
          /\ circuit'.openUntil =
                 Min(circuit.maxCooldownMs,
                     circuit.baseCooldownMs * (2 ^ (caller'.episode - 1)))]_vars

\* the fifth OPEN in a row of a breaker with base 500 ms and cap 4000 ms
BackoffWitness ==
    /\ circuit.baseCooldownMs = 500
    /\ circuit.maxCooldownMs = 4000
    /\ circuit.jitterNum = 0
    /\ circuit.state = "OPEN"
    /\ circuit.openUntil = 4000
    /\ caller.episode = 5

\* C17: in HALF_OPEN the admitted probes whose outcome was not reported yet
\* never exceed halfOpenMaxConcurrent, and an allowRequest() made while that
\* many are outstanding returns false.
HalfOpenLimitsProbes ==
    [][/\ circuit'.state = "HALF_OPEN" =>
              caller'.probes <= circuit'.halfOpenMaxConcurrent
       /\ (/\ caller'.last = "allowRequest"
           /\ circuit.state = "HALF_OPEN"
           /\ caller.probes >= circuit.halfOpenMaxConcurrent) =>
              ~caller'.admitted]_vars

\* C18: on a HALF_OPEN breaker onSuccess() gives CLOSED with the failure
\* count and the open count at zero; onFailure() gives OPEN at once, whatever
\* failureThreshold is, with a newly computed cooldown, and while that
\* cooldown runs allowRequest() returns false.
HalfOpenProbeDecides ==
    [][/\ (caller'.last = "onSuccess" /\ circuit.state = "HALF_OPEN") =>
              /\ circuit'.state = "CLOSED"
              /\ circuit'.consecutiveFailures = 0
              /\ circuit'.openCount = 0
       /\ (caller'.last = "onFailure" /\ circuit.state = "HALF_OPEN") =>
              /\ circuit'.state = "OPEN"
              /\ \E rnd \in Randoms(circuit) :
                     circuit'.openUntil = TripOpen(circuit, rnd).openUntil
       /\ (/\ caller'.last = "allowRequest"
           /\ circuit.state = "OPEN"
           /\ circuit.openUntil > 0) =>
              /\ ~caller'.admitted
              /\ circuit'.state = "OPEN"]_vars

\* a failure reported in HALF_OPEN re-opened the breaker with fewer than
\* failureThreshold failures in a row
HalfOpenProbeWitness ==
    /\ circuit.state = "OPEN"
    /\ circuit.openUntil > 0
    /\ circuit.consecutiveFailures < circuit.failureThreshold
    /\ caller.episode >= 2
    /\ caller.last = "onFailure"

\* C19: the breaker recovers by itself: once the cooldown is over and the
\* outcome of every admitted probe was reported, through onSuccess(),
\* onFailure() or onNonRetryable(), allowRequest() returns true.
BreakerRecovers ==
    [][(/\ caller'.last = "allowRequest"
        /\ circuit.state = "OPEN" => circuit.openUntil = 0
        /\ caller.probes = 0) =>
          caller'.admitted]_vars

\* -------------------------------------------------------------- proxy model
\* The proxy (analytics/proxy/proxyClient.ts) between an application that
\* makes calls and binds and unbinds real clients whose flush() settles
\* later.  A call is [id, method]; the result of a call is [st, on]: st is
\* "void" (nothing returned), "queued" (deferred, waiting for a bind),
\* "waiting" (deferred, settling with the real flush() of call on),
\* "resolved", "snapshot", "overflow" or "dropped" (rejected).
ProxyMethods == {"track", "flush", "setAdvertisingId", "getDebugInfo", "reset"}

IsAsyncMethod(m) == m \in {"flush", "getDebugInfo", "setAdvertisingId"}

Result(st, on) == [st |-> st, on |-> on]

\* the real client is given call c; how the result of c stands afterwards
Deliver(p, c) ==
    IF c.method = "flush"
    THEN LET q == IF p.flushInFlight # 0 THEN p
                  ELSE [p EXCEPT !.received = Append(@, c),
                                 !.flushing = @ \cup {c.id},
                                 !.mine = @ \cup {c.id},
                                 !.flushInFlight = c.id]
         IN  [q EXCEPT !.results[c.id] = Result("waiting", q.flushInFlight)]
    ELSE [p EXCEPT !.received = Append(@, c),
                   !.results[c.id] = IF IsAsyncMethod(c.method) \/ c.method = "reset"
                                     THEN Result("resolved", 0)
                                     ELSE Result("void", 0)]

\* a proxy that buffers without a cap
KeepOldest(p) == p

\* an eviction that leaves the deferred result of the evicted call unsettled
DropOldestSilently(p) ==
    IF Len(p.pendingCalls) >= MAX_PENDING_CALLS
    THEN [p EXCEPT !.pendingCalls = Tail(@)]
    ELSE p

\* the overflow check of handleMethodCall(): at the cap the oldest pending
\* call is shifted out and, if it has a reject handle, rejected
DropOldest(p) ==
    IF Len(p.pendingCalls) >= MAX_PENDING_CALLS
    THEN LET old == Head(p.pendingCalls)
         IN  [p EXCEPT !.pendingCalls = Tail(@),
                       !.results[old.id] = IF IsAsyncMethod(old.method)
                                           THEN Result("overflow", 0) ELSE @]
    ELSE p

\* handleMethodCall(methodName)
HandleMethodCall(p, m) ==
    LET c  == [id |-> p.nextCall, method |-> m]
        p0 == [p EXCEPT !.nextCall = @ + 1, !.results = Append(@, Result("void", 0))]
    IN  IF p0.realClient THEN Deliver(p0, c)
        ELSE LET p1 == DropOldest(p0)
             IN  IF m = "getDebugInfo"
                 THEN [p1 EXCEPT !.results[c.id] = Result("snapshot", 0)]
                 ELSE IF m = "reset"
                 THEN [p1 EXCEPT !.results[c.id] = Result("resolved", 0)]
                 ELSE [p1 EXCEPT !.pendingCalls = Append(@, c),
                                 !.results[c.id] = IF IsAsyncMethod(m)
                                                   THEN Result("queued", 0)
                                                   ELSE Result("void", 0)]

\* a replay that starts with the newest call
RECURSIVE ReplayNewestFirst(_, _)
ReplayNewestFirst(p, items) ==
    IF items = <<>> THEN p
    ELSE ReplayNewestFirst(Deliver(p, items[Len(items)]),
                           SubSeq(items, 1, Len(items) - 1))

\* the loop of setRealClient(client) over the spliced items
RECURSIVE Replay(_, _)
Replay(p, items) ==
    IF items = <<>> THEN p
    ELSE Replay(Deliver(p, Head(items)), Tail(items))

\* a setRealClient() whose dropPending empties the list without rejecting
SetRealClientSilent(p, client, dropPending) ==
    IF client
    THEN Replay([p EXCEPT !.realClient = TRUE, !.pendingCalls = <<>>,
                          !.replayed = Len(p.pendingCalls), !.mine = {}],
                p.pendingCalls)
    ELSE LET p1 == IF ~dropPending THEN p ELSE [p EXCEPT !.pendingCalls = <<>>]
         IN  [p1 EXCEPT !.realClient = FALSE, !.flushInFlight = 0, !.replayed = 0,
                        !.mine = {}]

\* setRealClient(client, opts)
SetRealClient(p, client, dropPending) ==
    IF client
    THEN Replay([p EXCEPT !.realClient = TRUE, !.pendingCalls = <<>>,
                          !.replayed = Len(p.pendingCalls), !.mine = {}],
                p.pendingCalls)
    ELSE LET p1 == IF ~dropPending THEN p
                   ELSE [p EXCEPT !.pendingCalls = <<>>,
                                  !.results = [i \in DOMAIN @ |->
                                                  IF @[i].st = "queued"
                                                  THEN Result("dropped", 0)
                                                  ELSE @[i]]]
         IN  [p1 EXCEPT !.realClient = FALSE, !.flushInFlight = 0, !.replayed = 0,
                        !.mine = {}]

\* a real flush() whose settling is not passed on to the deferred results
FlushSettledUnchained(p, k) ==
    [p EXCEPT !.flushing = @ \ {k}, !.flushInFlight = 0]

\* the flush() of a real client, invoked for call k, settles: the results
\* chained to it resolve and its finally() clears the coalescer
FlushSettled(p, k) ==
    [p EXCEPT !.flushing = @ \ {k},
              !.flushInFlight = 0,
              !.results = [i \in DOMAIN @ |->
                              IF @[i] = Result("waiting", k)
                              THEN Result("resolved", 0) ELSE @[i]]]

ProxyCall ==
    /\ proxy.nextCall <= MaxProxyCalls
    /\ \E m \in ProxyMethods :
           Commit([Cur EXCEPT !.proxy = HandleMethodCall(@, m)])

ProxyBind ==
    /\ ~proxy.realClient
    /\ Commit([Cur EXCEPT !.proxy = SetRealClient(@, TRUE, FALSE)])

\* the application calls setRealClient(null, {dropPending})
Unbind(dropPending) ==
    /\ dropPending \in BOOLEAN
    /\ Commit([Cur EXCEPT !.proxy = SetRealClient(@, FALSE, dropPending)])

ProxyUnbind == \E dropPending \in BOOLEAN : Unbind(dropPending)

RealFlushSettles ==
    \E k \in proxy.flushing :
        Commit([Cur EXCEPT !.proxy = FlushSettled(@, k)])

InitProxy == StateIs(Constructed(MainOpts))

NextProxy ==
    \/ ProxyCall
    \/ ProxyBind
    \/ ProxyUnbind
    \/ RealFlushSettles

SpecProxy == InitProxy /\ [][NextProxy]_vars

ReceivedInCallOrder(r) ==
    \A i \in 1..Len(r), j \in 1..Len(r) : i < j => r[i].id < r[j].id

\* C20: the real client is given the calls in the order they were made on
\* the proxy: a bind hands over the buffered calls oldest first and leaves
\* none behind (a buffered flush() may join the real flush() of an older
\* buffered flush()), so all of them precede every call made after the bind.
ReplayIsFifo ==
    [][/\ ReceivedInCallOrder(proxy'.received)
       /\ (~proxy.realClient /\ proxy'.realClient) =>
              LET new == SubSeq(proxy'.received, Len(proxy.received) + 1,
                                Len(proxy'.received))
              IN  /\ proxy'.pendingCalls = <<>>
                  /\ Range(new) \subseteq Range(proxy.pendingCalls)
                  /\ \A c \in Range(proxy.pendingCalls) :
                         \/ c \in Range(new)
                         \/ /\ c.method = "flush"
                            /\ \E d \in Range(new) :
                                   /\ d.method = "flush"
                                   /\ d.id < c.id
                                   /\ proxy'.results[c.id] = Result("waiting", d.id)]_vars

\* three buffered calls were replayed by a bind and a fourth call was made
\* on the bound proxy
ReplayWitness ==
    /\ proxy.realClient
    /\ proxy.replayed = 3
    /\ Len(proxy.received) = 4
    /\ proxy.received[1].method = "track"
    /\ proxy.received[4].id = 4

\* C21: in every reachable state the pending list of the proxy holds at
\* most MAX_PENDING_CALLS calls, whatever calls, binds and unbinds were made.
PendingWithinCap == Len(proxy.pendingCalls) <= MAX_PENDING_CALLS

\* the list is full again after a call made at the cap evicted the oldest
PendingCapWitness ==
    /\ ~proxy.realClient
    /\ Len(proxy.pendingCalls) = MAX_PENDING_CALLS
    /\ proxy.pendingCalls[1].id = 2
    /\ proxy.pendingCalls[MAX_PENDING_CALLS].id = MAX_PENDING_CALLS + 1

\* a call is made on the unbound proxy whose pending list is full of
\* result-bearing calls
OverflowCase ==
    /\ proxy'.nextCall = proxy.nextCall + 1
    /\ ~proxy.realClient
    /\ Len(proxy.pendingCalls) = MAX_PENDING_CALLS
    /\ \A c \in Range(proxy.pendingCalls) : IsAsyncMethod(c.method)

\* the oldest pending call is evicted and rejected for overflow, the other
\* pending calls stay pending in order
OldestRejected ==
    /\ proxy'.results[Head(proxy.pendingCalls).id] = Result("overflow", 0)
    /\ SubSeq(proxy'.pendingCalls, 1, MAX_PENDING_CALLS - 1) = Tail(proxy.pendingCalls)
    /\ \A c \in Range(Tail(proxy.pendingCalls)) :
           proxy'.results[c.id] = Result("queued", 0)

\* the call just made is the last of the pending list
NewCallQueued ==
    /\ Len(proxy'.pendingCalls) = MAX_PENDING_CALLS
    /\ proxy'.pendingCalls[MAX_PENDING_CALLS].id = proxy.nextCall

DropPendingRejects ==
    [][/\ Unbind(TRUE) =>
              /\ proxy'.pendingCalls = <<>>
              /\ \A c \in Range(proxy.pendingCalls) :
                     IsAsyncMethod(c.method) =>
                         proxy'.results[c.id] = Result("dropped", 0)
       /\ Unbind(FALSE) =>
              /\ proxy'.pendingCalls = proxy.pendingCalls
              /\ proxy'.results = proxy.results
       /\ \A i \in 1..Len(proxy.results) :
              proxy.results[i].st = "dropped" =>
                  /\ proxy'.results[i].st = "dropped"
                  /\ \A k \in (Len(proxy.received) + 1)..Len(proxy'.received) :
                         proxy'.received[k].id # i]_vars

\* a bind that follows a dropPending replayed the one call made since and
\* not the flush() that was dropped
DropPendingWitness ==
    /\ proxy.realClient
    /\ Len(proxy.results) >= 1
    /\ proxy.results[1] = Result("dropped", 0)
    /\ proxy.replayed = 1
    /\ Len(proxy.received) = 1

\* C24: at most one invocation of the flush() of the bound real client is
\* outstanding at any time, also after the proxy was unbound and bound again
\* while an older flush() has not settled.
ProxyFlushSingleFlight == Cardinality(proxy.flushing \cap proxy.mine) <= 1

\* the proxy model under the assumptions of C25: while the proxy is unbound
\* a bind eventually takes place (init.ts binds once init() is through), and
\* the flush() of a real client eventually settles
SpecProxyLive ==
    /\ InitProxy
    /\ [][NextProxy]_vars
    /\ WF_vars(ProxyBind)
    /\ WF_vars(RealFlushSettles)

\* C25: no deferred result the proxy returned while unbound is left hanging:
\* it is eventually resolved with the outcome of the real call after a bind,
\* or rejected, for overflow when its call is evicted or as dropped by an
\* unbind with dropPending.
DeferredResultsSettle ==
    \A i \in 1..MaxProxyCalls :
        (Len(proxy.results) >= i /\ proxy.results[i].st = "queued")
            ~> (/\ Len(proxy.results) >= i
                /\ proxy.results[i].st \in {"resolved", "overflow", "dropped"})

\* a flush() made unbound was replayed by a bind and resolved when the real
\* flush() settled
DeferredSettleWitness ==
    /\ proxy.replayed = 1
    /\ proxy.received = <<[id |-> 1, method |-> "flush"]>>
    /\ proxy.results[1] = Result("resolved", 0)
    /\ proxy.flushing = {}

\* ------------------------------------------------------- init module model
\* createAnalyticsClient() (analytics/init.ts) in front of the proxy: the
\* application asks for the client with either of two sets of options, calls
\* track() and reset() on the proxy, and the init() and reset() of the
\* instances end at any time.  Instances are numbered in the order of their
\* construction.
\* createAnalyticsClient(o), up to the await of instance.init()
CreateAnalyticsClient(s, o) ==
    IF s.factory.initPromise THEN s
    ELSE [s EXCEPT !.factory =
             [@ EXCEPT !.initPromise = TRUE, !.currentOptions = o,
                       !.inits = @ \cup {Len(s.factory.options) + 1},
                       !.options = Append(@, o), !.made = @ + 1]]

FactoryCreate ==
    \E o \in 1..2 :
        /\ factory.initPromise \/ Len(factory.options) < MaxInstances
        /\ Commit(CreateAnalyticsClient(Cur, o))

\* instance.init() of instance i resolved: setRealClient(boundClient)
FactoryInitDone ==
    \E i \in factory.inits :
        Commit([Cur EXCEPT !.proxy = SetRealClient(@, TRUE, FALSE),
                           !.factory = [@ EXCEPT !.inits = @ \ {i}, !.bound = i,
                                                 !.binds = @ + 1]])

\* instance.init() of instance i rejected, and with it the async body
FactoryInitFail ==
    \E i \in factory.inits :
        Commit([Cur EXCEPT !.factory.inits = @ \ {i}])

\* a call on the proxy; a reset() that reaches boundClient.reset() runs up
\* to the await of instance.reset()
FactoryCall ==
    \E m \in {"track", "reset"} :
        LET starts == m = "reset" /\ proxy.realClient
        IN  /\ proxy.nextCall <= MaxProxyCalls
            /\ starts => factory.resets < MaxFactoryResets
            /\ Commit([Cur EXCEPT !.proxy = HandleMethodCall(@, m),
                                  !.factory.resets = IF starts THEN @ + 1 ELSE @])

\* boundClient.reset() after the await of instance.reset()
FactoryResetDone ==
    /\ factory.resets > 0
    /\ Commit([Cur EXCEPT !.proxy = SetRealClient(@, FALSE, TRUE),
                          !.factory = [@ EXCEPT !.resets = @ - 1, !.bound = 0,
                                                !.initPromise = FALSE,
                                                !.currentOptions = 0,
                                                !.made = 0, !.binds = 0]])

NextFactory ==
    \/ FactoryCreate
    \/ FactoryInitDone
    \/ FactoryInitFail
    \/ FactoryCall
    \/ FactoryResetDone

SpecFactory == Init /\ [][NextFactory]_vars

\* C26: between two completed resets the createAnalyticsClient() calls
\* construct one real client and bind it to the proxy once, so that at most
\* one client is initializing or bound at any time.
OneClientPerReset ==
    /\ factory.made <= 1
    /\ factory.binds <= 1
    /\ Cardinality(factory.inits) + (IF factory.bound # 0 THEN 1 ELSE 0) <= 1

\* C27: a getDebugInfo() call made on the unbound proxy is queued, its
\* result deferred until a real client is bound and answers it.
DebugInfoQueuesUnbound ==
    [][(/\ ~proxy.realClient
        /\ proxy.nextCall <= MaxProxyCalls
        /\ proxy' = HandleMethodCall(proxy, "getDebugInfo")) =>
          /\ proxy'.results[proxy.nextCall] = Result("queued", 0)
          /\ proxy'.pendingCalls # <<>>
          /\ proxy'.pendingCalls[Len(proxy'.pendingCalls)] =
                 [id |-> proxy.nextCall, method |-> "getDebugInfo"]]_vars

\* -------------------------------------------------------- scheduling model
\* The one-shot timer of a Dispatcher whose owner calls scheduleFlushIn(ms)
\* with any of Delays and stop() at any time, while the clock advances in
\* steps of SchedTick and the timer fires when it is due.
Delays == {0 - 5, 0, 10, 30, 50, 100, 250}

ScheduleCall ==
    \E ms \in Delays :
        LET s == ScheduleFlushIn(Cur, ms)
        IN  Commit(s)

ScheduleStop ==
    /\ nextScheduledAt # Null
    /\ Commit(Stop(Cur))

ScheduleTick ==
    /\ nextScheduledAt # Null
    /\ ~TimerDue(Cur)
    /\ Commit(Elapse(Cur, SchedTick))

NextSchedule ==
    \/ ScheduleCall
    \/ NextTimerFire
    \/ ScheduleStop
    \/ ScheduleTick

SpecSchedule == Init /\ [][NextSchedule]_vars

BadRequestDropsAndContinues ==
    [][(answered'.kind = "response" /\ answered'.status = 400 /\ Len(flights) = 1) =>
          /\ circuit'.consecutiveFailures = 0
          /\ circuit.state = "CLOSED" => circuit'.state = "CLOSED"
          /\ IF queue = <<>>
             THEN /\ queue' = <<>>
                  /\ flights' = <<>>
                  /\ settling' = settling + 1
             ELSE /\ flights' = <<DrainBatch(queue, maxBatchSize).batch>>
                  /\ queue' = DrainBatch(queue, maxBatchSize).rest
                  /\ settling' = settling]_vars

\* C31: a 401, 403 or 404 response is reported to the breaker as a success:
\* after it the consecutive-failure count is zero and a breaker that was
\* HALF_OPEN is CLOSED.
FatalReportsSuccess ==
    [][(answered'.kind = "response" /\ answered'.status \in {401, 403, 404}
            /\ Len(flights) = 1) =>
          /\ circuit'.consecutiveFailures = 0
          /\ circuit.state = "HALF_OPEN" => circuit'.state = "CLOSED"]_vars

\* C32: right after Dispatcher.reset() the queue is empty, the periodic timer
\* and the one-shot timer are cancelled, the breaker is a fresh one in state
\* CLOSED and maxBatchSize is the configured value, at least 1, whatever it
\* had shrunk to; right after a stop() that is not part of a reset() both
\* timers are cancelled and the queue, the breaker and maxBatchSize are the
\* ones from before the call.
ResetRestoresStopKeeps ==
    /\ stopped.op # "none" =>
           /\ ~flushTimer
           /\ nextScheduledAt = Null
           /\ timeouts = {}
    /\ stopped.op = "reset" =>
           /\ queue = <<>>
           /\ circuit = NewBreaker
           /\ circuit.state = "CLOSED"
           /\ maxBatchSize = Max(1, opts.maxBatchSize)
           /\ maxBatchSize >= 1
    /\ stopped.op = "stop" =>
           /\ queue = stopped.queue
           /\ circuit = stopped.circuit
           /\ maxBatchSize = stopped.maxBatchSize

\* a reset() that found events queued, a one-shot timer pending and a
\* maxBatchSize shrunk by a 413
ResetRestoresWitness ==
    /\ stopped.op = "reset"
    /\ stopped.queue # <<>>
    /\ stopped.maxBatchSize < maxBatchSize
    /\ stopped.circuit # NewBreaker

\* C33: getState() never changes the breaker: once the cooldown is over it
\* reports HALF_OPEN while the stored state stays OPEN and the probe counter
\* is as it was (otherwise it reports the stored state); the stored state
\* becomes HALF_OPEN inside allowRequest() alone; and what allowRequest(),
\* onSuccess() and onFailure() return and leave behind is the same after
\* the call as before it.
GetStateOnlyReads ==
    [][/\ caller'.last = "getState" =>
              /\ circuit' = circuit
              /\ caller'.read = IF circuit.state = "OPEN" /\ circuit.openUntil = 0
                                THEN "HALF_OPEN" ELSE circuit.state
              /\ AllowRequest(circuit') = AllowRequest(circuit)
              /\ OnSuccess(circuit') = OnSuccess(circuit)
              /\ \A rnd \in Randoms(circuit) :
                     OnFailure(circuit', rnd) = OnFailure(circuit, rnd)
       /\ (circuit.state # "HALF_OPEN" /\ circuit'.state = "HALF_OPEN") =>
              caller'.last = "allowRequest"]_vars

\* getState() reported HALF_OPEN on a breaker whose stored state is OPEN,
\* the cooldown being over
GetStateWitness ==
    /\ caller.last = "getState"
    /\ caller.read = "HALF_OPEN"
    /\ circuit.state = "OPEN"
    /\ circuit.openUntil = 0

\* C34: onNonRetryable() sets the consecutive-failure count to zero and
\* leaves the state, the cooldown expiry, the open count and the number of
\* HALF_OPEN probes in flight as they are, whatever the state of the breaker.
NonRetryableClearsCountOnly ==
    [][caller'.last = "onNonRetryable" =>
          /\ circuit'.consecutiveFailures = 0
          /\ circuit'.state = circuit.state
          /\ circuit'.openUntil = circuit.openUntil
          /\ circuit'.openCount = circuit.openCount
          /\ circuit'.halfOpenInFlight = circuit.halfOpenInFlight]_vars

\* onNonRetryable() reported the only probe of a HALF_OPEN breaker: the
\* breaker is HALF_OPEN still and counts the probe as in flight
NonRetryableWitness ==
    /\ caller.last = "onNonRetryable"
    /\ caller.probes = 0
    /\ circuit.state = "HALF_OPEN"
    /\ circuit.halfOpenInFlight = 1
    /\ circuit.openCount = 1
    /\ circuit.consecutiveFailures = 0

\* ----------------------------------------------------------- jitter model
\* The breaker model with a CircuitBreaker constructed with any of
\* JitterOptions: jitterRatio 0, 1/5, 1/3 or 1/2 and a base cooldown of 0, 3
\* or 500 ms.
JitterOptions ==
    [failureThreshold : {1},
     cooldownMs : {0, 3, 500},
     maxCooldownMs : {Null, 1000},
     jitterRatio : {[num |-> 0, den |-> 10], [num |-> 1, den |-> 5],
                    [num |-> 1, den |-> 3], [num |-> 1, den |-> 2]},
     halfOpenMaxConcurrent : {Null}]

InitJitter ==
    \E o \in JitterOptions :
        StateIs([Constructed(MainOpts) EXCEPT !.circuit = CircuitBreaker(o)])

SpecJitter == InitJitter /\ [][NextBreaker]_vars

\* the base backoff of the OPEN episode the step begins
BaseBackoff ==
    Min(circuit.maxCooldownMs,
        circuit.baseCooldownMs * (2 ^ (caller'.episode - 1)))

\* C35: for every jitterRatio r in [0, 0.5] and every base backoff b the
\* cooldown realised when the breaker opens or re-opens is never negative
\* and lies in [b * (1 - r), b * (1 + r)], whatever Math.random() returns.
JitterWithinBounds ==
    [][caller'.episode = caller.episode + 1 =>
          /\ circuit'.state = "OPEN"
          /\ circuit'.openUntil >= 0
          /\ circuit'.openUntil * circuit.jitterDen
                 >= BaseBackoff * (circuit.jitterDen - circuit.jitterNum)
          /\ circuit'.openUntil * circuit.jitterDen
                 <= BaseBackoff * (circuit.jitterDen + circuit.jitterNum)]_vars

\* C35 as the code has it: the cooldown is a whole number of ms, never
\* negative, at least b * (1 - r) rounded down and at most b * (1 + r).
JitterWithinFlooredBounds ==
    [][caller'.episode = caller.episode + 1 =>
          /\ circuit'.state = "OPEN"
          /\ circuit'.openUntil >= 0
          /\ circuit'.openUntil
                 >= (BaseBackoff * (circuit.jitterDen - circuit.jitterNum))
                        \div circuit.jitterDen
          /\ circuit'.openUntil * circuit.jitterDen
                 <= BaseBackoff * (circuit.jitterDen + circuit.jitterNum)]_vars

\* a breaker with base 500 ms and jitterRatio 1/3 opened for the first time
\* with a cooldown of 333 ms, below 500 * (1 - 1/3)
JitterWitness ==
    /\ circuit.baseCooldownMs = 500
    /\ circuit.jitterNum * 3 = circuit.jitterDen
    /\ circuit.state = "OPEN"
    /\ caller.last = "onFailure"
    /\ caller.episode = 1
    /\ circuit.openUntil = 333

\* C36: while the proxy is unbound getDebugInfo() and reset() are never
\* queued and leave the pending list as it is, also when the list is at its
\* cap: getDebugInfo() settles at once with a snapshot and reset() at once
\* as a no-op.
SpecialCallsLeavePending ==
    [][\A m \in {"getDebugInfo", "reset"} :
          (/\ ~proxy.realClient
           /\ proxy.nextCall <= MaxProxyCalls
           /\ proxy' = HandleMethodCall(proxy, m)) =>
              /\ proxy'.results[proxy.nextCall] =
                     Result(IF m = "reset" THEN "resolved" ELSE "snapshot", 0)
              /\ proxy'.pendingCalls = proxy.pendingCalls
              /\ SubSeq(proxy'.results, 1, proxy.nextCall - 1) = proxy.results]_vars

\* C37: no tight retry loop: the retry the Dispatcher schedules after a
\* denied admission or a failed attempt is never due at once.  A one-shot
\* timer is due (0 ms left) only because time has passed since it was set:
\* the step that leaves it due is a step of the clock, or the timer was due
\* before the step and did not fire in it.
RetryDelaysPositive ==
    [][(nextScheduledAt' = 0 /\ ~ClockTick) =>
          (nextScheduledAt = 0 /\ ~NextTimerFire)]_vars

\* C38: when reset() resolves the client is idle and no periodic flush loop
\* runs, and the client stays so until init() is called again: while it is
\* idle with no initPromise, no step makes it ready or starts the periodic
\* timer (an init() call makes it initializing first).  This holds also
\* when reset() was called while an init() was in flight.
ResetStaysIdle ==
    [][/\ (resets > 0 /\ resets' = resets - 1) =>
              /\ lifecycle' = "idle"
              /\ ~flushTimer'
       /\ (lifecycle = "idle" /\ ~initPromise) =>
              /\ lifecycle' # "ready"
              /\ flushTimer' => flushTimer]_vars

\* C39: the breaker and the maxBatchSize that Dispatcher.reset() sets up are
\* changed by transport calls started after the reset alone: when the only
\* call with the transport was started before the last reset() (its batch
\* holds events tracked before it), its outcome records no success and no
\* failure on the breaker and does not shrink maxBatchSize.
OldOutcomeSparesNewBreaker ==
    [][(/\ answered'.kind # "none"
        /\ Len(flights) = 1
        /\ \A e \in Range(flights[1]) : e < resetMark) =>
          /\ circuit'.consecutiveFailures = circuit.consecutiveFailures
          /\ circuit'.state = circuit.state
          /\ circuit'.openCount = circuit.openCount
          /\ circuit'.halfOpenInFlight = circuit.halfOpenInFlight
          /\ maxBatchSize' = maxBatchSize]_vars

\* C40: in every reachable state of the breaker the probe counter is zero
\* unless the stored state is HALF_OPEN, and the consecutive-failure count is
\* below failureThreshold while the stored state is CLOSED.
BreakerCountersConsistent ==
    /\ circuit.state # "HALF_OPEN" => circuit.halfOpenInFlight = 0
    /\ circuit.state = "CLOSED" =>
           circuit.consecutiveFailures < circuit.failureThreshold

\* one of two probes succeeded and closed the breaker while the other is
\* still out: the probe counter is back at zero
BreakerCountersWitness ==
    /\ circuit.state = "CLOSED"
    /\ caller.last = "onSuccess"
    /\ caller.probes = 1
    /\ circuit.halfOpenInFlight = 0
    /\ circuit.consecutiveFailures = 0

====
